---- MODULE Spec2Model ----
(***************************************************************************)
(* Windowing and transition-label engine of the embryo time-lapse system.  *)
(*                                                                         *)
(*   Training/DataSet.py      Embryo_Transition_Dataset: phase setup,      *)
(*                            _create_sequences, _balance_flags, the two   *)
(*                            diagnostics, __len__ and __getitem__         *)
(*   WebApplication/Classes/Doctor.py        Doctor.predictTransitions     *)
(*   WebApplication/Routes/Doctor_Routes.py  Embryo_Predict                *)
(*                                                                         *)
(* Strings of the program that the code takes apart (frame identifiers)    *)
(* are sequences of one-character strings.  Python's None is the string    *)
(* "None".  The Mersenne Twister behind the random module is replaced by a *)
(* small congruential generator: what the model keeps of it is that every  *)
(* draw is a function of the generator state and advances that state.      *)
(***************************************************************************)
EXTENDS Integers, Sequences, FiniteSets, TLC

\* ------------------------------------------------------------------ bounds
\* Records in the filtered split (all videos together), and of its second video.
MaxFrames == 4
MaxSecond == 1
\* Largest window_size and stride the dataset is built with.
MaxWindow == 3
MaxStride == 2
\* Number of states of the stand-in random generator.
RngMod == 8
\* Frames of the single video of the balancing runs.
MaxBalFrames == 5

\* --------------------------------------------------------- small utilities
Range(f) == {f[i] : i \in DOMAIN f}

SetMax(S) == CHOOSE x \in S : \A y \in S : y <= x

SetMin(S) == CHOOSE x \in S : \A y \in S : x <= y

Min2(a, b) == IF a <= b THEN a ELSE b

Max2(a, b) == IF a >= b THEN a ELSE b

RECURSIVE Concat(_)
Concat(ss) == IF ss = <<>> THEN <<>> ELSE Head(ss) \o Concat(Tail(ss))

\* Python's range(start, stop, step) for step >= 1, as the list it iterates.
RECURSIVE PyRange(_, _, _)
PyRange(start, stop, step) ==
    IF start >= stop THEN <<>>
    ELSE <<start>> \o PyRange(start + step, stop, step)

\* Python's lst[a:b] for 0 <= a: positions a .. min(b, len)-1, 0-based.
Slice(lst, a, b) == SubSeq(lst, a + 1, Min2(b, Len(lst)))

\* ------------------------------------------------ the random module (stand-in)
RngNext(s) == (5 * s + 3) % RngMod

\* random.seed(a): the state is a function of a alone.
Seeded(a) == a % RngMod

\* One draw below n (n >= 1): the value and the state after it.
RandBelow(s, n) == [val |-> (RngNext(s) \div 2) % n, rng |-> RngNext(s)]

\* Variant: k independent draws from the whole population (random.choices).
RECURSIVE ChoicesFrom(_, _, _)
ChoicesFrom(population, k, s) ==
    IF k = 0 THEN [out |-> <<>>, rng |-> s]
    ELSE LET r == RandBelow(s, Len(population))
             rest == ChoicesFrom(population, k - 1, r.rng)
         IN [out |-> <<population[r.val + 1]>> \o rest.out, rng |-> rest.rng]

SampleWithRepeats(population, k, s) == ChoicesFrom(population, k, s)

\* random.sample(population, k), pool branch: k draws without replacement; the
\* drawn slot is refilled with the last live slot of the pool.
RECURSIVE SampleFrom(_, _, _, _)
SampleFrom(pool, n, k, s) ==
    IF k = 0 THEN [out |-> <<>>, rng |-> s]
    ELSE LET r == RandBelow(s, n)
             j == r.val + 1
             rest == SampleFrom([pool EXCEPT ![j] = pool[n]], n - 1, k - 1, r.rng)
         IN [out |-> <<pool[j]>> \o rest.out, rng |-> rest.rng]

RandomSample(population, k, s) == SampleFrom(population, Len(population), k, s)

\* random.shuffle(x): Fisher-Yates from the last position down.
RECURSIVE ShuffleFrom(_, _, _)
ShuffleFrom(x, i, s) ==
    IF i < 2 THEN [out |-> x, rng |-> s]
    ELSE LET r == RandBelow(s, i)
             j == r.val + 1
         IN ShuffleFrom([x EXCEPT ![i] = x[j], ![j] = x[i]], i - 1, r.rng)

RandomShuffle(x, s) == ShuffleFrom(x, Len(x), s)

\* ------------------------------------------------------- phases and frames
chronological_phases ==
    <<"tPB2", "tPNa", "tPNf", "t2", "t3", "t4", "t5", "t6", "t7", "t8",
      "t9+", "tM", "tSB", "tB", "tEB">>

\* Phases the frames of the modelled splits are annotated with.
PhasePool == {"t2", "t3", "t4"}

\* Video names (each with a digit of its own) and the last token of the
\* identifier of a video's k-th recorded frame; the ordinals run 1, 2, 3, 10,
\* 11, ... so that numeric and textual order differ.
VideoName == << <<"A", "7">>, <<"B", "9">> >>

DigitChars == <<"0", "1", "2", "3", "4", "5", "6", "7", "8", "9">>

RECURSIVE Decimal(_)
Decimal(n) ==
    IF n < 10 THEN <<DigitChars[n + 1]>>
    ELSE Decimal(n \div 10) \o <<DigitChars[(n % 10) + 1]>>

OrdinalOf(k) == IF k <= 3 THEN k ELSE k + 6

RunToken(k) == <<"R", "U", "N">> \o Decimal(OrdinalOf(k))

Row(v, k, p) ==
    [Video_name |-> VideoName[v],
     Identifier |-> VideoName[v] \o <<"_">> \o RunToken(k),
     Path       |-> VideoName[v] \o <<"/">> \o RunToken(k),
     Phase      |-> p]

\* The filtered split: l1 frames of the first video, then l2 of the second.
CsvRows(l1, l2, ph) ==
    [i \in 1..(l1 + l2) |->
        IF i <= l1 THEN Row(1, i, ph[i]) ELSE Row(2, i - l1, ph[i])]

\* ------------------------------------------------------ ordinal extraction
IsDigit(c) == \E i \in 1..10 : DigitChars[i] = c

DigitVal(c) == (CHOOSE i \in 1..10 : DigitChars[i] = c) - 1

\* identifier.split("_")[-1]
LastToken(identifier) ==
    LET us == {i \in 1..Len(identifier) : identifier[i] = "_"}
    IN IF us = {} THEN identifier
       ELSE SubSeq(identifier, SetMax(us) + 1, Len(identifier))

\* re.findall(r"\d+", token): is there a first match, and which.
HasDigits(token) == \E i \in 1..Len(token) : IsDigit(token[i])

FirstDigitRun(token) ==
    LET first == SetMin({i \in 1..Len(token) : IsDigit(token[i])})
        last  == SetMax({j \in first..Len(token) :
                            \A i \in first..j : IsDigit(token[i])})
    IN SubSeq(token, first, last)

RECURSIVE ToInt(_)
ToInt(digits) ==
    IF digits = <<>> THEN 0
    ELSE 10 * ToInt(SubSeq(digits, 1, Len(digits) - 1))
         + DigitVal(digits[Len(digits)])

\* Variant: every frame gets the same key.
SortKeyConstant(frame) == 0

\* The sort key of _create_sequences.
SortKey(frame) == ToInt(FirstDigitRun(LastToken(frame.identifier)))

KeyParses(frame) == HasDigits(LastToken(frame.identifier))

\* sorted(frames, key=...): stable, ascending.
RECURSIVE SortedFrames(_)
SortedFrames(frames) ==
    IF frames = <<>> THEN <<>>
    ELSE LET n    == Len(frames)
             f    == frames[n]
             rest == SortedFrames(SubSeq(frames, 1, n - 1))
             keep == Cardinality({i \in 1..Len(rest) : SortKey(rest[i]) <= SortKey(f)})
         IN SubSeq(rest, 1, keep) \o <<f>> \o SubSeq(rest, keep + 1, Len(rest))

\* ---------------------------------------------------------------- state
VARIABLES
    csv,               \* rows of the split file left by the UsedFor and tHB filters
    window_size, stride, multiple_phases, balance_flags, seed,   \* arguments
    mode, NumberOfVideos,                                        \* arguments
    pc,                \* where the construction stands
    data_frame,        \* self.data_frame
    phase_labels,      \* self.phase_labels
    phase_to_index,    \* self.phase_to_index
    video_sequences,   \* self.video_sequences, the window population
    rng,               \* state of the generator of the random module
    err,               \* exception that ended the construction, or "None"
    balance_input,     \* the population _balance_flags was called on
    flag_counts,       \* <<flag_0, flag_1>> printed by _print_flag_consistency
    transition_matrix, \* matrix printed by _print_transition_matrix
    item,              \* value returned by the last __getitem__ (<<>>: no call yet)
    item_idx,          \* its index
    runs,              \* constructions started on these arguments
    prev_sequences     \* population of the previous construction

dsvars == <<csv, window_size, stride, multiple_phases, balance_flags, seed, mode,
            NumberOfVideos, pc,
            data_frame, phase_labels, phase_to_index, video_sequences, rng, err,
            balance_input, flag_counts, transition_matrix, item, item_idx,
            runs, prev_sequences>>

args == <<csv, window_size, stride, multiple_phases, balance_flags, seed, mode,
          NumberOfVideos>>

\* The prediction endpoint (Doctor_Routes.py, Doctor.py).
VARIABLES
    request,           \* the request being served: session, frame_count, images
    model_file,        \* what is at model_path: "missing", "module" (a pickled
                       \* network) or "state_dict" (what train_model saves)
    result,            \* tuple returned by Doctor.predictTransitions (<<>>: none)
    windows_used,      \* [start, frames] of every pass of its window loop
    response,          \* <<status, body>> sent by Embryo_Predict (<<>>: none)
    invoked            \* predictTransitions was called for the request

pvars == <<request, model_file, result, windows_used, response, invoked>>

\* The list objects of the dataset under construction.
VARIABLES
    lists,             \* contents of the list objects allocated so far, by identity
    seq_ref,           \* identity of the list self.video_sequences is bound to (0: none)
    rng_before         \* state of the random module's generator when __init__ was entered

hvars == <<lists, seq_ref, rng_before>>

\* The callers of the constructor (Load_data.py, and threads sharing the process).
VARIABLES
    kwargs,            \* keyword arguments of get_dataloaders, as <<key, value>> pairs
    used_for,          \* UsedFor of the dataset under construction
    workers            \* the _balance_flags calls of concurrent constructions

gvars == <<kwargs, used_for, workers>>

\* Calls made on the constructed dataset.
VARIABLES
    len_result,        \* value returned by the last __len__ (-1: no call yet)
    last_call,         \* the method called last on the constructed dataset
    load_failed        \* an image of the window did not load in the last __getitem__

uvars == <<len_result, last_call, load_failed>>

\* The embryo records of the web application (Doctor.py).
VARIABLES
    embryo,            \* rows of the embryo table, in insertion order
    folders,           \* folders that exist under the image base path
    files,             \* <<folder, file name>> of every stored file
    call,              \* the Doctor method called last, with its arguments
    reply,             \* the pair it returned (<<>>: no call yet)
    before             \* the table and the folders as they were when it was called

svars == <<embryo, folders, files, call, reply, before>>

vars == <<dsvars, pvars, hvars, gvars, uvars, svars>>

\* ------------------------------------------------------- __init__: loading
\* df.sample(frac=1, random_state=seed): a permutation fixed by the seed, drawn
\* from a generator of its own.
ShuffledRows(rows, sd) == RandomShuffle(rows, Seeded(sd)).out

\* Variant: the present phases in order of first appearance in the data.
PresentInDataOrder(df) ==
    LET seen[i \in 0..Len(df)] ==
            IF i = 0 THEN <<>>
            ELSE IF df[i].Phase \in Range(seen[i - 1]) THEN seen[i - 1]
                 ELSE Append(seen[i - 1], df[i].Phase)
    IN seen[Len(df)]

PresentPhases(df) ==
    SelectSeq(chronological_phases,
              LAMBDA p : \E i \in 1..Len(df) : df[i].Phase = p)

PhaseToIndex(labels) ==
    [p \in Range(labels) |-> (CHOOSE i \in 1..Len(labels) : labels[i] = p) - 1]

\* ------------------------------------------------------- _create_sequences
RECURSIVE FirstSeen(_)
FirstSeen(df) ==
    IF df = <<>> THEN <<>>
    ELSE LET rest == FirstSeen(SubSeq(df, 1, Len(df) - 1))
             v    == df[Len(df)].Video_name
         IN IF v \in Range(rest) THEN rest ELSE Append(rest, v)

FrameDict(row) ==
    [identifier |-> row.Identifier, path |-> row.Path, phase |-> row.Phase]

Grouped(df, video) ==
    LET rows == SelectSeq(df, LAMBDA r : r.Video_name = video)
    IN [i \in 1..Len(rows) |-> FrameDict(rows[i])]

UniquePhases(sequence) == {sequence[i].phase : i \in 1..Len(sequence)}

\* The two phases of the window are next to each other in the index.
AdjacentIndices(unique_phases, p2i) ==
    LET phase_indices == {p2i[p] : p \in unique_phases}
    IN SetMax(phase_indices) = SetMin(phase_indices) + 1

\* The lookup of the two phases raises KeyError.
ValidationRaises(sequence, mp, p2i) ==
    /\ ~mp
    /\ Cardinality(UniquePhases(sequence)) = 2
    /\ \E p \in UniquePhases(sequence) : p \notin DOMAIN p2i

\* Variant: two phases are accepted without the adjacency test.
RetainedUpToTwo(sequence, mp, p2i) ==
    mp \/ Cardinality(UniquePhases(sequence)) <= 2

\* Variant: two phases pass when their indices differ by at most 2.
RetainedWithinTwo(sequence, mp, p2i) ==
    \/ mp
    \/ Cardinality(UniquePhases(sequence)) < 2
    \/ /\ Cardinality(UniquePhases(sequence)) = 2
       /\ LET phase_indices == {p2i[p] : p \in UniquePhases(sequence)}
          IN SetMax(phase_indices) <= SetMin(phase_indices) + 2

\* The candidate is appended to self.video_sequences.
Retained(sequence, mp, p2i) ==
    \/ mp
    \/ Cardinality(UniquePhases(sequence)) < 2
    \/ /\ Cardinality(UniquePhases(sequence)) = 2
       /\ AdjacentIndices(UniquePhases(sequence), p2i)

\* Variant: the stop of the range is one short.
WindowStartsShort(n, w, s) == PyRange(0, n - w, s)

WindowStarts(n, w, s) == PyRange(0, n - w + 1, s)

\* Variant: a window is cut at every stride-th frame, the short ones at the end
\* of the video included.
CandidatesWithTail(sorted_frames, w, s) ==
    LET starts == PyRange(0, Len(sorted_frames), s)
    IN [i \in 1..Len(starts) |-> Slice(sorted_frames, starts[i], starts[i] + w)]

Candidates(sorted_frames, w, s) ==
    LET starts == WindowStarts(Len(sorted_frames), w, s)
    IN [i \in 1..Len(starts) |-> Slice(sorted_frames, starts[i], starts[i] + w)]

\* Variant: a video of a single frame is not sorted.
VideoRaisesUnlessSingle(frames, w, s, mp, p2i) ==
    IF Len(frames) <= 1 THEN "None"
    ELSE IF \E i \in 1..Len(frames) : ~KeyParses(frames[i]) THEN "IndexError"
    ELSE IF \E c \in Range(Candidates(SortedFrames(frames), w, s)) :
                ValidationRaises(c, mp, p2i) THEN "KeyError"
    ELSE "None"

\* The exception the video's pass of the outer loop ends with: sorted applies
\* the key to every frame of the video before any window is cut.
VideoRaises(frames, w, s, mp, p2i) ==
    IF \E i \in 1..Len(frames) : ~KeyParses(frames[i]) THEN "IndexError"
    ELSE IF \E c \in Range(Candidates(SortedFrames(frames), w, s)) :
                ValidationRaises(c, mp, p2i) THEN "KeyError"
    ELSE "None"

VideoWindows(frames, w, s, mp, p2i) ==
    SelectSeq(Candidates(SortedFrames(frames), w, s),
              LAMBDA c : Retained(c, mp, p2i))

CreateError(df, w, s, mp, p2i) ==
    LET videos == FirstSeen(df)
        bad == {i \in 1..Len(videos) :
                    VideoRaises(Grouped(df, videos[i]), w, s, mp, p2i) # "None"}
    IN IF bad = {} THEN "None"
       ELSE VideoRaises(Grouped(df, videos[SetMin(bad)]), w, s, mp, p2i)

\* Variant: the videos are visited in the order of their names.
AllWindowsByName(df, w, s, mp, p2i) ==
    LET videos == SelectSeq(VideoName, LAMBDA n : n \in Range(FirstSeen(df)))
    IN Concat([i \in 1..Len(videos) |->
                  VideoWindows(Grouped(df, videos[i]), w, s, mp, p2i)])

\* The loop over grouped.items(): a dict keeps its keys in insertion order.
AllWindows(df, w, s, mp, p2i) ==
    LET videos == FirstSeen(df)
    IN Concat([i \in 1..Len(videos) |->
                  VideoWindows(Grouped(df, videos[i]), w, s, mp, p2i)])

\* ------------------------------------------------------------ the flag
Labels(seq, p2i) == [i \in 1..Len(seq) |-> p2i[seq[i].phase]]

LabelsRaise(seq, p2i) == \E i \in 1..Len(seq) : seq[i].phase \notin DOMAIN p2i

\* _balance_flags, lines 226-230
BalanceFlagOf(seq, p2i) ==
    IF Labels(seq, p2i)[1] = Labels(seq, p2i)[Len(seq)] THEN 0 ELSE 1

\* _print_flag_consistency, lines 242-246
ReportFlagOf(seq, p2i) ==
    IF Labels(seq, p2i)[1] = Labels(seq, p2i)[Len(seq)] THEN 0 ELSE 1

\* Variant: any change of phase inside the window sets the flag.
ItemFlagAnyChange(labels) == IF Cardinality(Range(labels)) = 1 THEN 0 ELSE 1

\* __getitem__, line 310, on the labels list built frame by frame
ItemFlagOf(labels) == IF labels[1] = labels[Len(labels)] THEN 0 ELSE 1

\* ---------------------------------------------------------- _balance_flags
BalanceSeed == 42

\* Variant: the generator is used in the state it is found in.
KeepGeneratorState(s) == s

\* random.seed(42) at the head of the sampling.
SeedForBalance(s) == Seeded(BalanceSeed)

BalanceCount(a, b) == Min2(a, b)

Balanced(population, p2i, s) ==
    LET flag_0_seqs == SelectSeq(population, LAMBDA q : BalanceFlagOf(q, p2i) = 0)
        flag_1_seqs == SelectSeq(population, LAMBDA q : BalanceFlagOf(q, p2i) = 1)
        n  == BalanceCount(Len(flag_0_seqs), Len(flag_1_seqs))
        d0 == RandomSample(flag_0_seqs, n, SeedForBalance(s))
        d1 == RandomSample(flag_1_seqs, n, d0.rng)
    IN RandomShuffle(d0.out \o d1.out, d1.rng)

\* ------------------------------------------------------------- diagnostics
FlagCounts(population, p2i) ==
    <<Cardinality({i \in 1..Len(population) : ReportFlagOf(population[i], p2i) = 0}),
      Cardinality({i \in 1..Len(population) : ReportFlagOf(population[i], p2i) = 1})>>

\* Variant: the cell is addressed [last_phase][first_phase].
TransitionMatrixTransposed(population, labels, p2i) ==
    [i \in 0..(Len(labels) - 1) |-> [j \in 0..(Len(labels) - 1) |->
        Cardinality({k \in 1..Len(population) :
            /\ p2i[population[k][1].phase] = j
            /\ p2i[population[k][Len(population[k])].phase] = i})]]

TransitionMatrix(population, labels, p2i) ==
    [i \in 0..(Len(labels) - 1) |-> [j \in 0..(Len(labels) - 1) |->
        Cardinality({k \in 1..Len(population) :
            /\ p2i[population[k][1].phase] = i
            /\ p2i[population[k][Len(population[k])].phase] = j})]]

\* -------------------------------------------------------------- __getitem__
\* Variant: when an image fails, the element is built from the frames loaded
\* before it.
GetItemValuePartial(sequence, p2i, w, failAt, md) ==
    LET loaded == IF failAt > 0 THEN SubSeq(sequence, 1, failAt - 1) ELSE sequence
    IN IF loaded = <<>> THEN <<"None">>
       ELSE <<[i \in 1..Len(loaded) |-> loaded[i].path],
              ItemFlagOf([i \in 1..Len(loaded) |-> p2i[loaded[i].phase]]),
              p2i[loaded[1].phase],
              p2i[loaded[Len(loaded)].phase]>>

\* The frames are loaded in order; failAt is the first frame whose image does
\* not load (0: all load).  The value is <<"None">>, the exception raised, or
\* <<images_seq, flag, first_frame_phase, last_frame_phase>>.
GetItemValue(sequence, p2i, w, failAt, md) ==
    IF failAt > 0 THEN <<"None">>
    ELSE IF md \notin {"video", "image_seq"} THEN <<"ValueError">>
    ELSE IF Len(sequence) # w THEN <<"ValueError">>
    ELSE LET labels == [i \in 1..Len(sequence) |-> p2i[sequence[i].phase]]
         IN <<[i \in 1..Len(sequence) |-> sequence[i].path],
              ItemFlagOf(labels),
              p2i[sequence[1].phase],
              p2i[sequence[Len(sequence)].phase]>>

\* ------------------------------------------------- the dataset's operations
MaxRuns == 2

\* Series.sample(n=k, random_state=seed) on the distinct video names raises
\* ValueError when k exceeds their number (or is negative).
SampleRaises(videos, k) == k # 0 /\ k \notin 1..Len(videos)

\* The videos it picks: k distinct names, by a generator of its own.
SelectedVideos(videos, k, sd) == Range(RandomSample(videos, k, Seeded(sd)).out)

\* Rows left by the NumberOfVideos limit (0: all).
LimitedRows(rows, k, sd) ==
    IF k = 0 THEN rows
    ELSE SelectSeq(rows, LAMBDA r :
             r.Video_name \in SelectedVideos(FirstSeen(rows), k, sd))

\* __init__, lines 119-178.
LoadDataset ==
    /\ pc = "new"
    /\ rng_before' = rng
    /\ IF SampleRaises(FirstSeen(csv), NumberOfVideos)
       THEN /\ err' = "ValueError"
            /\ pc' = "failed"
            /\ UNCHANGED <<data_frame, phase_labels, phase_to_index,
                           video_sequences, lists, seq_ref>>
       ELSE /\ data_frame' = ShuffledRows(LimitedRows(csv, NumberOfVideos, seed), seed)
            /\ phase_labels' = PresentPhases(data_frame')
            /\ phase_to_index' = PhaseToIndex(phase_labels')
            /\ video_sequences' = <<>>
            /\ lists' = << <<>> >>
            /\ seq_ref' = 1
            /\ err' = err
            /\ pc' = "create"
    /\ UNCHANGED <<args, rng, balance_input, flag_counts, transition_matrix,
                   item, item_idx, runs, prev_sequences, pvars, uvars, svars, gvars>>

\* _create_sequences; an exception leaves __init__ and no dataset exists.
CreateSequences ==
    /\ pc = "create"
    /\ LET e == CreateError(data_frame, window_size, stride, multiple_phases,
                            phase_to_index)
       IN IF e # "None"
          THEN /\ err' = e
               /\ pc' = "failed"
               /\ video_sequences' = <<>>
               /\ lists' = lists
          ELSE /\ err' = err
               /\ pc' = IF balance_flags THEN "balance" ELSE "flags"
               /\ video_sequences' = AllWindows(data_frame, window_size, stride,
                                                multiple_phases, phase_to_index)
               /\ lists' = [lists EXCEPT ![seq_ref] = video_sequences']
    /\ UNCHANGED <<args, data_frame, phase_labels, phase_to_index, rng,
                   balance_input, flag_counts, transition_matrix, item, item_idx,
                   runs, prev_sequences, pvars, uvars, svars, seq_ref, rng_before, gvars>>

\* Variant: the sampled windows are written into the list already bound.
AssignedInPlace(bound, built) == bound

\* self.video_sequences = random.sample(...) + random.sample(...): the attribute
\* is rebound to the list built by +, and random.shuffle permutes the list the
\* attribute names.
AssignedList(bound, built) == built

\* _balance_flags
BalanceFlags ==
    /\ pc = "balance"
    /\ balance_input' = video_sequences
    /\ IF \E i \in 1..Len(video_sequences) :
              LabelsRaise(video_sequences[i], phase_to_index)
       THEN /\ err' = "KeyError"
            /\ pc' = "failed"
            /\ UNCHANGED <<video_sequences, rng, lists, seq_ref>>
       ELSE LET b == Balanced(video_sequences, phase_to_index, rng)
                ref == AssignedList(seq_ref, Len(lists) + 1)
            IN /\ video_sequences' = b.out
               /\ lists' = [Append(lists, b.out) EXCEPT ![ref] = b.out]
               /\ seq_ref' = ref
               /\ rng' = b.rng
               /\ pc' = "flags"
               /\ err' = err
    /\ UNCHANGED <<args, data_frame, phase_labels, phase_to_index, flag_counts,
                   transition_matrix, item, item_idx, runs, prev_sequences, pvars, uvars, svars,
                   rng_before, gvars>>

\* _print_flag_consistency
PrintFlagConsistency ==
    /\ pc = "flags"
    /\ IF \E i \in 1..Len(video_sequences) :
              LabelsRaise(video_sequences[i], phase_to_index)
       THEN /\ err' = "KeyError"
            /\ pc' = "failed"
            /\ UNCHANGED flag_counts
       ELSE /\ flag_counts' = FlagCounts(video_sequences, phase_to_index)
            /\ pc' = "matrix"
            /\ err' = err
    /\ UNCHANGED <<args, data_frame, phase_labels, phase_to_index, video_sequences,
                   rng, balance_input, transition_matrix, item, item_idx, runs,
                   prev_sequences, pvars, uvars, svars, hvars, gvars>>

\* _print_transition_matrix; __init__ returns after it.
PrintTransitionMatrix ==
    /\ pc = "matrix"
    /\ transition_matrix' =
           TransitionMatrix(video_sequences, phase_labels, phase_to_index)
    /\ pc' = "done"
    /\ UNCHANGED <<args, data_frame, phase_labels, phase_to_index, video_sequences,
                   rng, err, balance_input, flag_counts, item, item_idx, runs,
                   prev_sequences, pvars, uvars, svars, hvars, gvars>>

\* Variant: __getitem__ takes the window out of the population.
GetItemConsuming ==
    /\ pc = "done"
    /\ \E idx \in 0..(Len(video_sequences) - 1), failAt \in 0..window_size :
          /\ item' = GetItemValue(video_sequences[idx + 1], phase_to_index,
                                  window_size, failAt, mode)
          /\ item_idx' = idx
          /\ load_failed' = (failAt > 0)
          /\ video_sequences' = SubSeq(video_sequences, 1, idx)
                                 \o SubSeq(video_sequences, idx + 2, Len(video_sequences))
    /\ last_call' = "__getitem__"
    /\ UNCHANGED <<args, pc, data_frame, phase_labels, phase_to_index,
                   rng, err, balance_input, flag_counts,
                   transition_matrix, runs, prev_sequences, pvars, len_result,
                   svars, hvars, gvars>>

\* __getitem__(idx)
GetItem ==
    /\ pc = "done"
    /\ \E idx \in 0..(Len(video_sequences) - 1), failAt \in 0..window_size :
          /\ item' = GetItemValue(video_sequences[idx + 1], phase_to_index,
                                  window_size, failAt, mode)
          /\ item_idx' = idx
          /\ load_failed' = (failAt > 0)
    /\ last_call' = "__getitem__"
    /\ UNCHANGED <<args, pc, data_frame, phase_labels, phase_to_index,
                   video_sequences, rng, err, balance_input, flag_counts,
                   transition_matrix, runs, prev_sequences, pvars, len_result,
                   svars, hvars, gvars>>

\* The dataset is constructed once more on the same split and arguments (every
\* call of get_dataloaders constructs its datasets anew).
ConstructAgain ==
    /\ pc = "done"
    /\ runs < MaxRuns
    /\ runs' = runs + 1
    /\ prev_sequences' = video_sequences
    /\ pc' = "new"
    /\ data_frame' = <<>>
    /\ phase_labels' = <<>>
    /\ phase_to_index' = <<>>
    /\ video_sequences' = <<>>
    /\ balance_input' = <<>>
    /\ flag_counts' = <<0, 0>>
    /\ transition_matrix' = <<>>
    /\ item' = <<>>
    /\ item_idx' = -1
    /\ lists' = <<>>
    /\ seq_ref' = 0
    /\ UNCHANGED <<args, rng, err, pvars, uvars, svars, rng_before, gvars>>

\* Any other use of the random module between two constructions.
RandomOp ==
    /\ pc = "new"
    /\ rng' = RngNext(rng)
    /\ UNCHANGED <<args, pc, data_frame, phase_labels, phase_to_index,
                   video_sequences, err, balance_input, flag_counts,
                   transition_matrix, item, item_idx, runs, prev_sequences, pvars, uvars, svars,
                   hvars, gvars>>

\* ------------------------------------------------------------ initial states
Seeds == {42, 7}

Splits(maxTotal, maxSecond) ==
    UNION {{CsvRows(l1, l2, ph) : ph \in [1..(l1 + l2) -> PhasePool]} :
             <<l1, l2>> \in {x \in (0..maxTotal) \X (0..maxSecond) :
                                x[1] + x[2] <= maxTotal}}

FreshDataset ==
    /\ pc = "new"
    /\ data_frame = <<>>
    /\ phase_labels = <<>>
    /\ phase_to_index = <<>>
    /\ video_sequences = <<>>
    /\ err = "None"
    /\ balance_input = <<>>
    /\ flag_counts = <<0, 0>>
    /\ transition_matrix = <<>>
    /\ item = <<>>
    /\ item_idx = -1
    /\ runs = 1
    /\ prev_sequences = <<>>
    /\ lists = <<>>
    /\ seq_ref = 0
    /\ rng_before = 0
    /\ len_result = -1
    /\ last_call = "none"
    /\ load_failed = FALSE

\* mode and NumberOfVideos as get_dataloaders passes them.
DefaultOptions ==
    /\ mode = "image_seq"
    /\ NumberOfVideos = 0

\* One constructor call, made directly and by one thread.
SingleCaller ==
    /\ kwargs = {}
    /\ used_for = "None"
    /\ workers = <<>>

\* No embryo has been stored and no Doctor method called.
EmptyStore ==
    /\ embryo = <<>>
    /\ folders = {}
    /\ files = {}
    /\ call = [op |-> "none"]
    /\ reply = <<>>
    /\ before = [embryo |-> <<>>, folders |-> {}, files |-> {}]

NoRequest ==
    /\ request = [user_id |-> 0, frame_count |-> 8, images |-> <<>>]
    /\ model_file = "missing"
    /\ result = <<>>
    /\ windows_used = <<>>
    /\ response = <<>>
    /\ invoked = FALSE
    /\ EmptyStore

\* Dataset construction over every small split of two videos.
Init ==
    /\ csv \in Splits(MaxFrames, MaxSecond)
    /\ window_size \in 1..MaxWindow
    /\ stride \in 1..MaxStride
    /\ multiple_phases \in BOOLEAN
    /\ balance_flags \in BOOLEAN
    /\ seed \in Seeds
    /\ rng = 0
    /\ DefaultOptions
    /\ FreshDataset
    /\ SingleCaller
    /\ NoRequest

Next ==
    \/ LoadDataset
    \/ CreateSequences
    \/ BalanceFlags
    \/ PrintFlagConsistency
    \/ PrintTransitionMatrix
    \/ GetItem

Spec == Init /\ [][Next]_vars

\* Repeated balanced construction over one longer video, with other uses of the
\* random module in between.
InitBal ==
    /\ csv \in Splits(MaxBalFrames, 0)
    /\ window_size = 2
    /\ stride = 1
    /\ multiple_phases \in BOOLEAN
    /\ balance_flags = TRUE
    /\ seed = 42
    /\ rng = 0
    /\ DefaultOptions
    /\ FreshDataset
    /\ SingleCaller
    /\ NoRequest

NextBal ==
    \/ LoadDataset
    \/ CreateSequences
    \/ BalanceFlags
    \/ PrintFlagConsistency
    \/ PrintTransitionMatrix
    \/ ConstructAgain
    \/ RandomOp

SpecBal == InitBal /\ [][NextBal]_vars

\* Construction over splits that may hold a frame annotated with a phase outside
\* the chronology, and a frame whose identifier ends in a token without digits.
MaxBadFrames == 3

MalformedPhasePool == {"t2", "t3", "tX"}

\* The row with the digits of its identifier's last token removed.
WithoutOrdinal(row) ==
    [row EXCEPT !.Identifier = row.Video_name \o <<"_", "R", "U", "N">>]

MalformedSplits(maxTotal, maxSecond) ==
    UNION {{[i \in 1..(x[1] + x[2]) |->
                IF i = k THEN WithoutOrdinal(CsvRows(x[1], x[2], ph)[i])
                ELSE CsvRows(x[1], x[2], ph)[i]] :
               ph \in [1..(x[1] + x[2]) -> MalformedPhasePool],
               k \in 0..(x[1] + x[2])} :
             x \in {y \in (0..maxTotal) \X (0..maxSecond) : y[1] + y[2] <= maxTotal}}

InitMalformed ==
    /\ csv \in MalformedSplits(MaxBadFrames, MaxSecond)
    /\ window_size \in 1..MaxWindow
    /\ stride \in 1..MaxStride
    /\ multiple_phases \in BOOLEAN
    /\ balance_flags \in BOOLEAN
    /\ seed = 42
    /\ rng = 0
    /\ DefaultOptions
    /\ FreshDataset
    /\ SingleCaller
    /\ NoRequest

NextMalformed ==
    \/ LoadDataset
    \/ CreateSequences
    \/ BalanceFlags
    \/ PrintFlagConsistency
    \/ PrintTransitionMatrix

SpecMalformed == InitMalformed /\ [][NextMalformed]_vars

\* ----------------------------------------------------- Doctor: embryo store
MaxDoctors == 2
MaxEmbryos == 2
MaxFormId == 2

Doctors == 1..MaxDoctors

\* users.global_access: the second doctor has it, the others do not.
GlobalAccess(u) == u = 2

Dates == {"2024-01-01", "2024-02-02"}

\* The image files of an upload.
Uploads == {{"img1.jpg"}, {"img1.jpg", "img2.jpg"}}

\* The step of addEmbryo at which an exception is raised, or "none".
AddFailures == {"none", "connect", "save", "insert"}

\* f"embryo_{embryo_data['embryo_id']}_{embryo_data['date']}" under the base path
FolderOf(formId, date) == <<formId, date>>

\* shutil.rmtree(folder_path): the directory and everything in it.
RemovedTree(fs, folder) == {f \in fs : f[1] # folder}

\* SELECT path, doctor_id FROM embryo WHERE embryo_id = %s
RowsWithId(table, id) == SelectSeq(table, LAMBDA r : r.embryo_id = id)

\* doctor_id != current_user_id and no truthy global_access for the caller
Denied(row, u) == row.doctor_id # u /\ ~GlobalAccess(u)

\* UPDATE embryo SET date = ... WHERE embryo_id = %s AND doctor_id = %s: the
\* table after the statement.
UpdatedTable(table, id, u, date) ==
    [i \in 1..Len(table) |->
        IF table[i].embryo_id = id /\ table[i].doctor_id = u
        THEN [table[i] EXCEPT !.date = date]
        ELSE table[i]]

\* cursor.rowcount of that statement
RowCount(table, id, u) ==
    Len(SelectSeq(table, LAMBDA r : r.embryo_id = id /\ r.doctor_id = u))

Snapshot == [embryo |-> embryo, folders |-> folders, files |-> files]

\* addEmbryo(embryo_data, images, annotations_csv, current_user_id). A reply is
\* the returned pair: ok its first component, msg the message of a failure,
\* data the value returned with a success.
AddEmbryo ==
    /\ \E u \in Doctors, formId \in 1..MaxFormId, date \in Dates,
          images \in Uploads, fail \in AddFailures :
          LET folder == FolderOf(formId, date)
          IN /\ fail = "none" => Len(embryo) < MaxEmbryos
             /\ call' = [op |-> "addEmbryo", user |-> u, embryo_id |-> formId,
                         date |-> date]
             /\ before' = Snapshot
             /\ IF fail = "connect"
                THEN \* raised before folder_path is bound: nothing to clean up
                     /\ reply' = [ok |-> FALSE, msg |-> "error", data |-> <<>>]
                     /\ UNCHANGED <<embryo, folders, files>>
                ELSE IF fail \in {"save", "insert"}
                THEN \* makedirs(exist_ok=True), then the handler's rmtree
                     /\ reply' = [ok |-> FALSE, msg |-> "error", data |-> <<>>]
                     /\ folders' = folders \ {folder}
                     /\ files' = RemovedTree(files, folder)
                     /\ UNCHANGED embryo
                ELSE /\ folders' = folders \cup {folder}
                     /\ files' = files \cup {<<folder, name>> : name \in images}
                                       \cup {<<folder, "annotations.csv">>}
                     /\ embryo' = Append(embryo,
                                         [embryo_id |-> Len(embryo) + 1,
                                          date |-> date,
                                          path |-> folder,
                                          doctor_id |-> u])
                     /\ reply' = [ok |-> TRUE, msg |-> "", data |-> <<folder>>]
    /\ UNCHANGED <<dsvars, pvars, hvars, gvars, uvars>>

\* updateEmbryo(embryo_id, embryo_data, annotations_csv, current_user_id)
UpdateEmbryo ==
    /\ \E u \in Doctors, id \in 1..MaxEmbryos, date \in Dates :
          LET found == RowsWithId(embryo, id)
          IN /\ call' = [op |-> "updateEmbryo", user |-> u, embryo_id |-> id,
                         date |-> date]
             /\ before' = Snapshot
             /\ IF found = <<>>
                THEN /\ reply' = [ok |-> FALSE, msg |-> "Embryo not found",
                                  data |-> <<>>]
                     /\ UNCHANGED embryo
                ELSE IF Denied(found[1], u)
                THEN /\ reply' = [ok |-> FALSE, msg |-> "Access denied",
                                  data |-> <<>>]
                     /\ UNCHANGED embryo
                ELSE IF RowCount(embryo, id, u) = 0
                THEN /\ reply' = [ok |-> FALSE, msg |-> "No record updated",
                                  data |-> <<>>]
                     /\ UNCHANGED embryo
                ELSE /\ embryo' = UpdatedTable(embryo, id, u, date)
                     /\ reply' = [ok |-> TRUE,
                                  msg |-> "Embryo updated successfully",
                                  data |-> <<>>]
    \* the annotations file is rewritten in place: the same set of files
    /\ UNCHANGED <<folders, files, dsvars, pvars, hvars, gvars, uvars>>

\* getEmbryoImagesAndAnnotations(embryo_id, current_user_id); the listing holds
\* the names found in the folder.
GetEmbryoImagesAndAnnotations ==
    /\ \E u \in Doctors, id \in 1..MaxEmbryos :
          LET found == RowsWithId(embryo, id)
          IN /\ call' = [op |-> "getEmbryoImagesAndAnnotations", user |-> u,
                         embryo_id |-> id]
             /\ before' = Snapshot
             /\ reply' =
                   IF found = <<>>
                   THEN [ok |-> FALSE, msg |-> "Embryo not found", data |-> <<>>]
                   ELSE IF Denied(found[1], u)
                   THEN [ok |-> FALSE, msg |-> "Access denied", data |-> <<>>]
                   ELSE IF found[1].path \notin folders
                   THEN [ok |-> FALSE, msg |-> "Image folder not found",
                         data |-> <<>>]
                   ELSE [ok |-> TRUE, msg |-> "",
                         data |-> <<[folder_path |-> found[1].path,
                                     image_files |->
                                        {f[2] : f \in {g \in files :
                                            /\ g[1] = found[1].path
                                            /\ g[2] # "annotations.csv"}},
                                     has_csv |-> <<found[1].path, "annotations.csv">>
                                                    \in files]>>]
    /\ UNCHANGED <<embryo, folders, files, dsvars, pvars, hvars, gvars, uvars>>

InitStore ==
    /\ csv = <<>>
    /\ window_size = 1
    /\ stride = 1
    /\ multiple_phases = FALSE
    /\ balance_flags = FALSE
    /\ seed = 42
    /\ rng = 0
    /\ DefaultOptions
    /\ FreshDataset
    /\ SingleCaller
    /\ NoRequest

NextStore ==
    \/ AddEmbryo
    \/ UpdateEmbryo
    \/ GetEmbryoImagesAndAnnotations

SpecStore == InitStore /\ [][NextStore]_vars

\* ------------------------------------------- calls on the constructed dataset
\* __len__
LenCall ==
    /\ pc = "done"
    /\ len_result' = Len(video_sequences)
    /\ last_call' = "__len__"
    /\ UNCHANGED <<dsvars, load_failed, pvars, hvars, gvars, svars>>

\* _print_flag_consistency called on the constructed dataset.
ReportFlagConsistency ==
    /\ pc = "done"
    /\ flag_counts' = FlagCounts(video_sequences, phase_to_index)
    /\ last_call' = "_print_flag_consistency"
    /\ UNCHANGED <<args, pc, data_frame, phase_labels, phase_to_index,
                   video_sequences, rng, err, balance_input, transition_matrix,
                   item, item_idx, runs, prev_sequences, len_result, load_failed,
                   pvars, hvars, gvars, svars>>

\* _print_transition_matrix called on the constructed dataset.
ReportTransitionMatrix ==
    /\ pc = "done"
    /\ transition_matrix' =
           TransitionMatrix(video_sequences, phase_labels, phase_to_index)
    /\ last_call' = "_print_transition_matrix"
    /\ UNCHANGED <<args, pc, data_frame, phase_labels, phase_to_index,
                   video_sequences, rng, err, balance_input, flag_counts,
                   item, item_idx, runs, prev_sequences, len_result, load_failed,
                   pvars, hvars, gvars, svars>>

MaxUseFrames == 3

\* Any value of the mode argument: the two documented ones and another string.
Modes == {"image_seq", "video", "frames"}

InitUse ==
    /\ csv \in Splits(MaxUseFrames, 0)
    /\ mode \in Modes
    /\ NumberOfVideos = 0
    /\ window_size \in 1..2
    /\ stride = 1
    /\ multiple_phases \in BOOLEAN
    /\ balance_flags \in BOOLEAN
    /\ seed = 42
    /\ rng = 0
    /\ FreshDataset
    /\ SingleCaller
    /\ NoRequest

NextUse ==
    \/ LoadDataset
    \/ CreateSequences
    \/ BalanceFlags
    \/ PrintFlagConsistency
    \/ PrintTransitionMatrix
    \/ GetItem
    \/ LenCall
    \/ ReportFlagConsistency
    \/ ReportTransitionMatrix

SpecUse == InitUse /\ [][NextUse]_vars

\* Construction alone, up to the end of __init__, under one seed.
MaxShapeFrames == 4

InitShape ==
    /\ csv \in Splits(MaxShapeFrames, MaxSecond)
    /\ window_size \in 1..MaxWindow
    /\ stride \in 1..2
    /\ multiple_phases \in BOOLEAN
    /\ balance_flags \in BOOLEAN
    /\ seed = 42
    /\ rng = 0
    /\ DefaultOptions
    /\ FreshDataset
    /\ SingleCaller
    /\ NoRequest

NextShape ==
    \/ LoadDataset
    \/ CreateSequences
    \/ BalanceFlags
    \/ PrintFlagConsistency
    \/ PrintTransitionMatrix

SpecShape == InitShape /\ [][NextShape]_vars

\* Construction with a limit on the number of videos.
MaxVideos == 3

MaxVideoFrames == 3

InitVideos ==
    /\ csv \in Splits(MaxVideoFrames, MaxSecond)
    /\ NumberOfVideos \in 0..MaxVideos
    /\ mode = "image_seq"
    /\ window_size \in 1..2
    /\ stride = 1
    /\ multiple_phases \in BOOLEAN
    /\ balance_flags = FALSE
    /\ seed \in Seeds
    /\ rng = 0
    /\ FreshDataset
    /\ SingleCaller
    /\ NoRequest

NextVideos ==
    \/ LoadDataset
    \/ CreateSequences
    \/ PrintFlagConsistency
    \/ PrintTransitionMatrix

SpecVideos == InitVideos /\ [][NextVideos]_vars

\* Construction over split files whose rows come in any order.
MaxPermFrames == 3

Permuted(rows) ==
    LET n == Len(rows)
    IN {[i \in 1..n |-> rows[f[i]]] :
          f \in {g \in [1..n -> 1..n] : \A a, b \in 1..n : g[a] = g[b] => a = b}}

InitPerm ==
    /\ csv \in UNION {Permuted(rows) : rows \in Splits(MaxPermFrames, MaxSecond)}
    /\ window_size \in 1..MaxWindow
    /\ stride \in 1..2
    /\ multiple_phases \in BOOLEAN
    /\ balance_flags = FALSE
    /\ seed = 42
    /\ rng = 0
    /\ DefaultOptions
    /\ FreshDataset
    /\ SingleCaller
    /\ NoRequest

NextPerm ==
    \/ LoadDataset
    \/ CreateSequences
    \/ PrintFlagConsistency
    \/ PrintTransitionMatrix

SpecPerm == InitPerm /\ [][NextPerm]_vars

\* ------------------------------------------- concurrent _balance_flags calls
\* Two threads of one process construct a dataset each on the same split and
\* arguments.  Loading and windowing touch no shared state (df.sample draws from
\* a generator of its own), so both reach _balance_flags with the population
\* held in video_sequences; from there the threads are switched between the
\* calls of the random module, whose generator they share.
MaxConcFrames == 4

Threads == {1, 2}

FlagSeqs(population, p2i, f) ==
    SelectSeq(population, LAMBDA q : BalanceFlagOf(q, p2i) = f)

SampleSize(population, p2i) ==
    BalanceCount(Len(FlagSeqs(population, p2i, 0)), Len(FlagSeqs(population, p2i, 1)))

\* The loop over the population and random.seed(42).
BalSeed(t) ==
    /\ pc = "balance"
    /\ workers[t].pc = "start"
    /\ rng' = SeedForBalance(rng)
    /\ workers' = [workers EXCEPT ![t].pc = "seeded"]
    /\ UNCHANGED <<args, pc, data_frame, phase_labels, phase_to_index,
                   video_sequences, err, balance_input, flag_counts,
                   transition_matrix, item, item_idx, runs, prev_sequences,
                   hvars, kwargs, used_for, pvars, uvars, svars>>

\* random.sample(flag_0_seqs, n), the left operand of +.
BalSampleFirst(t) ==
    /\ pc = "balance"
    /\ workers[t].pc = "seeded"
    /\ LET d == RandomSample(FlagSeqs(video_sequences, phase_to_index, 0),
                             SampleSize(video_sequences, phase_to_index), rng)
       IN /\ rng' = d.rng
          /\ workers' = [workers EXCEPT ![t].pc = "half", ![t].s0 = d.out]
    /\ UNCHANGED <<args, pc, data_frame, phase_labels, phase_to_index,
                   video_sequences, err, balance_input, flag_counts,
                   transition_matrix, item, item_idx, runs, prev_sequences,
                   hvars, kwargs, used_for, pvars, uvars, svars>>

\* random.sample(flag_1_seqs, n), the right operand.
BalSampleSecond(t) ==
    /\ pc = "balance"
    /\ workers[t].pc = "half"
    /\ LET d == RandomSample(FlagSeqs(video_sequences, phase_to_index, 1),
                             SampleSize(video_sequences, phase_to_index), rng)
       IN /\ rng' = d.rng
          /\ workers' = [workers EXCEPT ![t].pc = "picked", ![t].s1 = d.out]
    /\ UNCHANGED <<args, pc, data_frame, phase_labels, phase_to_index,
                   video_sequences, err, balance_input, flag_counts,
                   transition_matrix, item, item_idx, runs, prev_sequences,
                   hvars, kwargs, used_for, pvars, uvars, svars>>

\* The assignment of the concatenation and random.shuffle on it.
BalShuffle(t) ==
    /\ pc = "balance"
    /\ workers[t].pc = "picked"
    /\ LET r == RandomShuffle(workers[t].s0 \o workers[t].s1, rng)
       IN /\ rng' = r.rng
          /\ workers' = [workers EXCEPT ![t].pc = "done", ![t].out = r.out]
    /\ UNCHANGED <<args, pc, data_frame, phase_labels, phase_to_index,
                   video_sequences, err, balance_input, flag_counts,
                   transition_matrix, item, item_idx, runs, prev_sequences,
                   hvars, kwargs, used_for, pvars, uvars, svars>>

InitConc ==
    /\ csv \in Splits(MaxConcFrames, 0)
    /\ window_size = 2
    /\ stride = 1
    /\ multiple_phases \in BOOLEAN
    /\ balance_flags = TRUE
    /\ seed = 42
    /\ rng = 0
    /\ DefaultOptions
    /\ FreshDataset
    /\ kwargs = {}
    /\ used_for = "None"
    /\ workers = [t \in Threads |->
                     [pc |-> "start", s0 |-> <<>>, s1 |-> <<>>, out |-> <<>>]]
    /\ NoRequest

NextConc ==
    \/ LoadDataset
    \/ CreateSequences
    \/ \E t \in Threads : BalSeed(t)
    \/ \E t \in Threads : BalSampleFirst(t)
    \/ \E t \in Threads : BalSampleSecond(t)
    \/ \E t \in Threads : BalShuffle(t)

SpecConc == InitConc /\ [][NextConc]_vars

\* ----------------------------------------------------------- get_dataloaders
MaxLoaderFrames == 3

\* **kwargs: at most one value for each keyword.
KwargSets ==
    {kw \in SUBSET ({"Balance_Flags", "Multiple_Phases"} \X BOOLEAN) :
        \A p, q \in kw : p[1] = q[1] => p = q}

\* kwargs.get(key, default)
KwGet(kw, key, default) ==
    IF \E p \in kw : p[1] = key
    THEN (CHOOSE p \in kw : p[1] = key)[2]
    ELSE default

\* balance_flags passed to the constructor of the split's dataset.
BalanceArgument(split, kw) == KwGet(kw, "Balance_Flags", FALSE)

MultiplePhasesArgument(split, kw) == KwGet(kw, "Multiple_Phases", FALSE)

\* train_set, val_set and test_set are constructed in this order.
NextSplit(split) ==
    IF split = "None" THEN "Train" ELSE IF split = "Train" THEN "Val" ELSE "Test"

\* get_dataloaders reaches its next constructor call and binds the arguments;
\* rows are what the UsedFor filter leaves of the split file.
GetDataloaders ==
    /\ \/ pc = "call" /\ used_for = "None"
       \/ pc = "done" /\ used_for \in {"Train", "Val"}
    /\ used_for' = NextSplit(used_for)
    /\ \E rows \in Splits(MaxLoaderFrames, 0) : csv' = rows
    /\ seed' = 42
    /\ balance_flags' = BalanceArgument(used_for', kwargs)
    /\ multiple_phases' = MultiplePhasesArgument(used_for', kwargs)
    /\ pc' = "new"
    /\ data_frame' = <<>>
    /\ phase_labels' = <<>>
    /\ phase_to_index' = <<>>
    /\ video_sequences' = <<>>
    /\ balance_input' = <<>>
    /\ flag_counts' = <<0, 0>>
    /\ transition_matrix' = <<>>
    /\ lists' = <<>>
    /\ seq_ref' = 0
    /\ UNCHANGED <<window_size, stride, mode, NumberOfVideos, rng, err, item,
                   item_idx, runs, prev_sequences, rng_before, kwargs, workers,
                   pvars, uvars, svars>>

\* A call of get_dataloaders with any keyword arguments, the configured
\* window_size and stride, and any small split file.
InitLoaders ==
    /\ kwargs \in KwargSets
    /\ used_for = "None"
    /\ workers = <<>>
    /\ window_size \in 1..2
    /\ stride = 1
    /\ csv = <<>>
    /\ multiple_phases = FALSE
    /\ balance_flags = FALSE
    /\ seed = 42
    /\ rng = 0
    /\ DefaultOptions
    /\ pc = "call"
    /\ data_frame = <<>>
    /\ phase_labels = <<>>
    /\ phase_to_index = <<>>
    /\ video_sequences = <<>>
    /\ err = "None"
    /\ balance_input = <<>>
    /\ flag_counts = <<0, 0>>
    /\ transition_matrix = <<>>
    /\ item = <<>>
    /\ item_idx = -1
    /\ runs = 1
    /\ prev_sequences = <<>>
    /\ lists = <<>>
    /\ seq_ref = 0
    /\ rng_before = 0
    /\ len_result = -1
    /\ last_call = "none"
    /\ load_failed = FALSE
    /\ NoRequest

NextLoaders ==
    \/ GetDataloaders
    \/ LoadDataset
    \/ CreateSequences
    \/ BalanceFlags
    \/ PrintFlagConsistency
    \/ PrintTransitionMatrix

SpecLoaders == InitLoaders /\ [][NextLoaders]_vars

\* ------------------------------------------------ Doctor.predictTransitions
\* An uploaded image is a positive number (its content) when it decodes and 0
\* when base64 or PIL rejects it.
Decodes(img) == img > 0

SupportedFrameCount(frame_count) == frame_count \in {8, 32}

\* int(torch.round(torch.sigmoid(model(window))).item()): a function of the
\* frames handed to the network and of nothing else.
ModelPrediction(window) ==
    IF window = <<>> THEN 0
    ELSE ((window[1] \div 2) + window[Len(window)]) % 2

\* Variant: the loop stops one window early.
PredictStartsShort(n, frame_count) == PyRange(0, n - frame_count, 1)

\* range(len(images) - frame_count + 1), the offsets of the window loop.
PredictStarts(n, frame_count) == PyRange(0, n - frame_count + 1, 1)

\* Variant: the slice starts one frame late.
PredictWindowShifted(images_tensor, i, frame_count) ==
    Slice(images_tensor, i + 1, i + 1 + frame_count)

\* images_tensor[i:i+frame_count]
PredictWindow(images_tensor, i, frame_count) == Slice(images_tensor, i, i + frame_count)

\* The random branch is taken: the frame count is supported and no file is at
\* model_path.
FallsBack(frame_count, mf) == SupportedFrameCount(frame_count) /\ mf = "missing"

\* What the call returns (ret) and which windows its loop went through; bits
\* are the values random.randint(0, 1) yields, one per pass of the fallback loop.
PredictTransitions(images, frame_count, mf, bits) ==
    LET starts == PredictStarts(Len(images), frame_count)
    IN IF ~SupportedFrameCount(frame_count)
       THEN [ret |-> <<FALSE, "Unsupported frame count">>, windows |-> <<>>]
       ELSE IF mf = "missing"
       THEN [ret |-> <<TRUE, [k \in 1..Len(starts) |-> bits[k]], TRUE>>,
             windows |-> [k \in 1..Len(starts) |-> [start |-> starts[k], frames |-> <<>>]]]
       ELSE IF \E k \in 1..Len(images) : ~Decodes(images[k])
       THEN [ret |-> <<FALSE, "Error processing image">>, windows |-> <<>>]
       ELSE IF images = <<>>          \* torch.stack of an empty list raises
       THEN [ret |-> <<FALSE, "Error predicting transitions">>, windows |-> <<>>]
       ELSE IF mf # "module"          \* a state dict has no eval()
       THEN [ret |-> <<FALSE, "Error predicting transitions">>, windows |-> <<>>]
       ELSE LET wins == [k \in 1..Len(starts) |->
                            [start  |-> starts[k],
                             frames |-> PredictWindow(images, starts[k], frame_count)]]
            IN [ret |-> <<TRUE, [k \in 1..Len(wins) |-> ModelPrediction(wins[k].frames)],
                          FALSE>>,
                windows |-> wins]

\* Number of random.randint draws of a call.
FallbackDraws(images, frame_count, mf) ==
    IF FallsBack(frame_count, mf) THEN Len(PredictStarts(Len(images), frame_count))
    ELSE 0

\* A direct call of Doctor.predictTransitions with the request's arguments.
CallPredict ==
    /\ result = <<>>
    /\ response = <<>>
    /\ \E bits \in [1..FallbackDraws(request.images, request.frame_count, model_file)
                     -> {0, 1}] :
          LET out == PredictTransitions(request.images, request.frame_count,
                                        model_file, bits)
          IN /\ result' = out.ret
             /\ windows_used' = out.windows
    /\ invoked' = TRUE
    /\ UNCHANGED <<dsvars, hvars, gvars, uvars, svars, request, model_file, response>>

\* ------------------------------------------------------------ Embryo_Predict
\* Variant: only an empty upload is rejected.
RejectsOnlyEmpty(images, frame_count) == Len(images) = 0

\* The route rejects the request before the call.
TooFewImages(images, frame_count) == Len(images) < frame_count

\* Variant: every successful reply is sent in the old format.
RouteReplyOldFormat(ret) ==
    IF ret[1]
    THEN <<200, [success |-> TRUE, predictions |-> ret[2], is_random |-> FALSE]>>
    ELSE <<400, [success |-> FALSE, message |-> ret[2]]>>

RouteReply(ret) ==
    IF Len(ret) = 3
    THEN IF ret[1]
         THEN <<200, [success |-> TRUE, predictions |-> ret[2], is_random |-> ret[3]]>>
         ELSE <<400, [success |-> FALSE, message |-> ret[2]]>>
    ELSE IF ret[1]
         THEN <<200, [success |-> TRUE, predictions |-> ret[2], is_random |-> FALSE]>>
         ELSE <<400, [success |-> FALSE, message |-> ret[2]]>>

\* POST /Doctor/Embryo/PREDICT, from the session check to the response.
Embryo_Predict ==
    /\ result = <<>>
    /\ response = <<>>
    /\ IF request.user_id = 0
       THEN /\ response' = <<401, [success |-> FALSE, message |-> "User not authenticated"]>>
            /\ UNCHANGED <<result, windows_used, invoked>>
       ELSE IF TooFewImages(request.images, request.frame_count)
       THEN /\ response' = <<400, [success |-> FALSE, message |-> "Need at least frame_count images"]>>
            /\ UNCHANGED <<result, windows_used, invoked>>
       ELSE \E bits \in [1..FallbackDraws(request.images, request.frame_count, model_file)
                          -> {0, 1}] :
               LET out == PredictTransitions(request.images, request.frame_count,
                                             model_file, bits)
               IN /\ result' = out.ret
                  /\ windows_used' = out.windows
                  /\ invoked' = TRUE
                  /\ response' = RouteReply(out.ret)
    /\ UNCHANGED <<dsvars, hvars, gvars, uvars, svars, request, model_file>>

\* ------------------------------------------------- requests of the endpoint
\* Images short of, and in excess of, the frame count of a request.
MaxShort == 3
MaxExtra == 3

FrameCounts == {4, 8, 32}

ImageCounts(frame_count) ==
    {0} \cup {n \in (frame_count - MaxShort)..(frame_count + MaxExtra) : n >= 0}

\* n uploaded images, the bad-th of which does not decode (0: all decode).
Images(n, bad) == [k \in 1..n |-> IF k = bad THEN 0 ELSE k]

IdleDataset ==
    /\ csv = <<>>
    /\ window_size = 8
    /\ stride = 1
    /\ multiple_phases = TRUE
    /\ balance_flags = FALSE
    /\ seed = 42
    /\ rng = 0
    /\ DefaultOptions
    /\ FreshDataset
    /\ SingleCaller

InitPredict ==
    /\ IdleDataset
    /\ \E fc \in FrameCounts : \E n \in ImageCounts(fc) : \E bad \in 0..n :
          \E uid \in {0, 1} :
             request = [user_id |-> uid, frame_count |-> fc, images |-> Images(n, bad)]
    /\ model_file \in {"missing", "module", "state_dict"}
    /\ result = <<>>
    /\ windows_used = <<>>
    /\ response = <<>>
    /\ invoked = FALSE
    /\ EmptyStore

NextPredict == CallPredict \/ Embryo_Predict

SpecPredict == InitPredict /\ [][NextPredict]_vars

\* The same n frames go through the dataset (one video, stride 1, validation
\* off, window_size = frame_count) and through predictTransitions.
InitSkew ==
    /\ \E fc \in FrameCounts : \E n \in ImageCounts(fc) :
          /\ csv = CsvRows(n, 0, [k \in 1..n |-> "t2"])
          /\ window_size = fc
          /\ request = [user_id |-> 1, frame_count |-> fc, images |-> Images(n, 0)]
    /\ stride = 1
    /\ multiple_phases = TRUE
    /\ balance_flags = FALSE
    /\ seed \in Seeds
    /\ rng = 0
    /\ DefaultOptions
    /\ FreshDataset
    /\ SingleCaller
    /\ model_file \in {"missing", "module", "state_dict"}
    /\ result = <<>>
    /\ windows_used = <<>>
    /\ response = <<>>
    /\ invoked = FALSE
    /\ EmptyStore

NextSkew ==
    \/ LoadDataset
    \/ CreateSequences
    \/ PrintFlagConsistency
    \/ PrintTransitionMatrix
    \/ CallPredict

SpecSkew == InitSkew /\ [][NextSkew]_vars

\* ================================================================= claims
\* Frames of the v-th video in recording order, read off the split itself.
RecordedFrames(v) ==
    LET rows == SelectSeq(csv, LAMBDA r : r.Video_name = VideoName[v])
    IN [k \in 1..Len(rows) |-> FrameDict(rows[k])]

\* Windows of the population whose first frame is a frame of the v-th video.
WindowsOfVideo(v) ==
    SelectSeq(video_sequences,
              LAMBDA q : \E k \in 1..Len(RecordedFrames(v)) : RecordedFrames(v)[k] = q[1])

\* Index of a phase in the vocabulary of the split: the number of phases of the
\* split that come earlier in the canonical chronology.
ChronoRank(p) == CHOOSE i \in 1..Len(chronological_phases) : chronological_phases[i] = p

VocabIndex(p) ==
    Cardinality({r \in {csv[i].Phase : i \in 1..Len(csv)} : ChronoRank(r) < ChronoRank(p)})

\* _create_sequences has returned and the population is still the one it built.
SequencesCreated ==
    \/ pc = "balance"
    \/ pc \in {"flags", "matrix", "done"} /\ ~balance_flags

\* C1: with validation disabled and balancing off, _create_sequences adds, for
\* every video of L frames, exactly max(0, floor((L - w) / s) + 1) windows of
\* exactly w frames each and raises nothing; for L = w it is the one window at
\* offset 0, whatever the stride.
C1_WindowCount ==
    (multiple_phases /\ ~balance_flags /\ pc \notin {"new", "create"}) =>
        /\ pc # "failed"
        /\ \A v \in 1..Len(VideoName) :
              LET L == Len(RecordedFrames(v))
                  mine == WindowsOfVideo(v)
              IN /\ Len(mine) = Max2(0, ((L - window_size) \div stride) + 1)
                 /\ \A i \in 1..Len(mine) : Len(mine[i]) = window_size
                 /\ L = window_size => mine = <<RecordedFrames(v)>>

\* A video of 3 frames under window 2 and stride 2 (one window, one frame left
\* over) next to a video shorter than the window.
C1_Witness ==
    /\ pc = "done" /\ multiple_phases /\ ~balance_flags
    /\ window_size = 2 /\ stride = 2
    /\ Len(RecordedFrames(1)) = 3 /\ Len(RecordedFrames(2)) = 1
    /\ Len(video_sequences) = 1

\* C2: the element __getitem__ returns for a window carries the vocabulary
\* indices of the phases of its first and last frame, the flag is 0 exactly
\* when the two are equal and 1 otherwise, and _balance_flags and
\* _print_flag_consistency compute the same flag for that window.
C2_ItemLabels ==
    (pc = "done" /\ Len(item) = 4) =>
        LET q == video_sequences[item_idx + 1]
        IN /\ item[3] = VocabIndex(q[1].phase)
           /\ item[4] = VocabIndex(q[Len(q)].phase)
           /\ item[2] \in {0, 1}
           /\ item[2] = 0 <=> item[3] = item[4]
           /\ item[2] = BalanceFlagOf(q, phase_to_index)
           /\ item[2] = ReportFlagOf(q, phase_to_index)

\* An element of a balanced population whose window leaves its first phase and
\* comes back to it.
C2_Witness ==
    /\ pc = "done" /\ Len(item) = 4 /\ balance_flags
    /\ window_size = 3
    /\ item[2] = 0
    /\ Cardinality(UniquePhases(video_sequences[item_idx + 1])) = 2

\* The candidate windows of _create_sequences: w consecutive frames of a video
\* starting at a multiple of the stride.
CandidateSet ==
    UNION {{SubSeq(RecordedFrames(v), start + 1, start + window_size) :
               start \in {x \in 0..(Len(RecordedFrames(v)) - window_size) :
                             x % stride = 0}} :
           v \in 1..Len(VideoName)}

InPopulation(c) == \E i \in 1..Len(video_sequences) : video_sequences[i] = c

\* C3: in strict mode a candidate window is retained if and only if it has at
\* most one distinct phase, or exactly two whose indices differ by 1; the
\* other candidates are dropped and nothing is raised.
C3_StrictRetention ==
    (~multiple_phases /\ pc \notin {"new", "create"}) =>
        /\ pc # "failed"
        /\ SequencesCreated =>
              \A c \in CandidateSet :
                 LET U == UniquePhases(c)
                 IN InPopulation(c)
                    <=> \/ Cardinality(U) <= 1
                        \/ /\ Cardinality(U) = 2
                           /\ \E p1, p2 \in U : VocabIndex(p2) = VocabIndex(p1) + 1

\* Two candidates of three frames, one kept with two adjacent phases, the other
\* dropped.
C3_Witness ==
    /\ ~multiple_phases /\ ~balance_flags /\ pc = "done"
    /\ window_size = 3 /\ stride = 1
    /\ Len(RecordedFrames(1)) = 4
    /\ Len(video_sequences) = 1
    /\ Cardinality(UniquePhases(video_sequences[1])) = 2

\* C4: in strict mode, whichever phases occur elsewhere in the split, a window
\* whose phases are exactly {t2, t3} is retained, one whose phases are exactly
\* {t2, t4} is discarded, and one with three or more phases is discarded.
C4_NamedPhases ==
    (~multiple_phases /\ SequencesCreated) =>
        \A c \in CandidateSet :
           /\ UniquePhases(c) = {"t2", "t3"} => InPopulation(c)
           /\ UniquePhases(c) = {"t2", "t4"} => ~InPopulation(c)
           /\ Cardinality(UniquePhases(c)) >= 3 => ~InPopulation(c)

\* The transition flag of a window, from its first and last phase.
FlagOf(q) == IF q[1].phase = q[Len(q)].phase THEN 0 ELSE 1

CountFlag(population, f) ==
    Cardinality({i \in 1..Len(population) : FlagOf(population[i]) = f})

\* _balance_flags has returned and the population is the one it produced.
BalanceDone == balance_flags /\ pc \in {"flags", "matrix", "done"}

\* C5: from a population with a windows of flag 0 and b of flag 1,
\* _balance_flags leaves exactly min(a, b) windows of each flag, each one a
\* window of the input and none taken twice, and raises nothing; with a = 0 or
\* b = 0 the population is empty.
C5_Balanced ==
    (balance_flags /\ pc \notin {"new", "create", "balance"}) =>
        /\ pc # "failed"
        /\ LET a == CountFlag(balance_input, 0)
               b == CountFlag(balance_input, 1)
           IN /\ Len(balance_input) = a + b
              /\ CountFlag(video_sequences, 0) = Min2(a, b)
              /\ CountFlag(video_sequences, 1) = Min2(a, b)
              /\ Len(video_sequences) = 2 * Min2(a, b)
              /\ \A i \in 1..Len(video_sequences) :
                    \E j \in 1..Len(balance_input) : balance_input[j] = video_sequences[i]
              /\ \A i, j \in 1..Len(video_sequences) :
                    i # j => video_sequences[i] # video_sequences[j]
              /\ (a = 0 \/ b = 0) => video_sequences = <<>>

\* One window of flag 0 is drawn out of three, next to the only one of flag 1.
C5_Witness ==
    /\ BalanceDone
    /\ CountFlag(balance_input, 0) = 3
    /\ CountFlag(balance_input, 1) = 1
    /\ Len(video_sequences) = 2

\* C6: a second run of _balance_flags on the same population yields the same
\* windows in the same order as the first, whatever was drawn from the random
\* module before either run.
C6_SameSelection ==
    (runs >= 2 /\ BalanceDone) => video_sequences = prev_sequences

\* The second of two runs, each choosing among several windows.
C6_Witness ==
    /\ runs = 2 /\ BalanceDone
    /\ Len(balance_input) = 4
    /\ Len(video_sequences) = 2

\* Doctor.predictTransitions has returned a success tuple.
PredictSucceeded == Len(result) = 3 /\ result[1]

\* C7: on N >= F images with a supported frame count F, a successful
\* predictTransitions returns N - F + 1 predictions, each 0 or 1, with or
\* without the model artifact; with the artifact, prediction i is the network's
\* answer on the frames at positions i .. i+F-1 of the upload.
C7_OnePredictionPerWindow ==
    LET N == Len(request.images)
        F == request.frame_count
    IN (PredictSucceeded /\ SupportedFrameCount(F) /\ N >= F) =>
          /\ Len(result[2]) = N - F + 1
          /\ \A i \in 1..Len(result[2]) : result[2][i] \in {0, 1}
          /\ ~result[3] =>
                \A i \in 1..Len(result[2]) :
                   /\ windows_used[i].frames = SubSeq(request.images, i, i + F - 1)
                   /\ result[2][i] = ModelPrediction(SubSeq(request.images, i, i + F - 1))

\* Ten frames, frame count 8, the network applied: three predictions.
C7_Witness ==
    /\ PredictSucceeded /\ ~result[3]
    /\ request.frame_count = 8
    /\ Len(request.images) = 10
    /\ Len(result[2]) = 3

\* C8: called with fewer images than a supported frame count,
\* Doctor.predictTransitions returns a failure, with or without the artifact.
C8_FailsOnTooFew ==
    (invoked /\ Len(result) > 0 /\ SupportedFrameCount(request.frame_count)
       /\ Len(request.images) < request.frame_count) => ~result[1]

\* C9: an authenticated request with fewer images than frame_count is answered
\* 400 with success false, and predictTransitions is not called for it.
C9_RouteRejectsTooFew ==
    (Len(response) > 0 /\ request.user_id # 0
       /\ Len(request.images) < request.frame_count) =>
          /\ response[1] = 400
          /\ ~response[2].success
          /\ ~invoked
          /\ result = <<>>

\* Five images for frame count 8 from a logged-in doctor, answered.
C9_Witness ==
    /\ Len(response) > 0 /\ request.user_id = 1
    /\ request.frame_count = 8 /\ Len(request.images) = 5
    /\ response[1] = 400

\* Start offset and length of every window of the population, in order (one
\* video).
DatasetBounds ==
    [i \in 1..Len(video_sequences) |->
        <<(CHOOSE k \in 1..Len(RecordedFrames(1)) :
              RecordedFrames(1)[k] = video_sequences[i][1]) - 1,
          Len(video_sequences[i])>>]

DatasetStarts == [i \in 1..Len(video_sequences) |-> DatasetBounds[i][1]]

\* The same of the windows handed to the network, and the offsets of the
\* window loop (the fallback loop forms no window).
PredictBounds ==
    [i \in 1..Len(windows_used) |->
        <<windows_used[i].start, Len(windows_used[i].frames)>>]

PredictOffsets == [i \in 1..Len(windows_used) |-> windows_used[i].start]

\* The population exists and predictTransitions has returned.
BothRan == pc \in {"flags", "matrix", "done"} /\ Len(result) > 0

\* C10 as stated: for every N and every window size w the loop of
\* predictTransitions goes through the window offsets _create_sequences
\* produces for one video of N frames with stride 1 and validation disabled
\* (whenever the artifact does not make the call fail).
C10_SameBoundsAnyWindow ==
    (BothRan /\ model_file # "state_dict") => PredictOffsets = DatasetStarts

\* C10 amended: for the supported frame counts 8 and 32, when the network is
\* applied the windows handed to it have the start offsets and lengths of the
\* windows of _create_sequences, in the same order; when random predictions
\* are substituted there is one per such window, in offset order; for any other
\* frame count the call fails without forming a window.
C10_SameBoundsSupported ==
    BothRan =>
       IF SupportedFrameCount(request.frame_count)
       THEN /\ (PredictSucceeded /\ ~result[3]) => PredictBounds = DatasetBounds
            /\ (PredictSucceeded /\ result[3]) =>
                  /\ PredictOffsets = DatasetStarts
                  /\ Len(result[2]) = Len(video_sequences)
       ELSE ~result[1] /\ windows_used = <<>>

\* 34 frames under frame count 32: three windows on either side.
C10_Witness ==
    /\ BothRan /\ PredictSucceeded /\ ~result[3]
    /\ request.frame_count = 32
    /\ Len(video_sequences) = 3
    /\ Len(windows_used) = 3

\* C11: in every successful response of the endpoint, is_random is true exactly
\* when the predictions were substituted at random (no file at model_path) and
\* false when the network computed them from the windows.
C11_RandomFlagged ==
    (Len(response) > 0 /\ response[1] = 200) =>
        /\ response[2].success
        /\ response[2].is_random <=> model_file = "missing"
        /\ ~response[2].is_random =>
              /\ Len(windows_used) = Len(response[2].predictions)
              /\ \A i \in 1..Len(windows_used) :
                    response[2].predictions[i] = ModelPrediction(windows_used[i].frames)

\* Substituted predictions for two windows, answered with the flag set.
C11_Witness ==
    /\ Len(response) > 0 /\ response[1] = 200
    /\ model_file = "missing"
    /\ Len(response[2].predictions) = 2
    /\ response[2].is_random

\* C12: whenever the artifact cannot be used for inference (no file, or a file
\* that cannot be loaded and run), predictTransitions on N >= frame_count
\* decodable images returns success with one substituted 0/1 prediction per
\* window and is_random true.
C12_FallbackOnUnusableModel ==
    LET N == Len(request.images)
        F == request.frame_count
    IN (invoked /\ Len(result) > 0 /\ SupportedFrameCount(F) /\ N >= F
          /\ (\A k \in 1..N : Decodes(request.images[k]))
          /\ model_file # "module") =>
             /\ Len(result) = 3
             /\ result[1]
             /\ result[3]
             /\ Len(result[2]) = N - F + 1
             /\ \A i \in 1..Len(result[2]) : result[2][i] \in {0, 1}

\* C16: when the present-phase vocabulary is empty (no loaded frame carries a
\* canonical phase, as for an empty filtered split) and every video is used,
\* construction fails instead of completing with an empty population.
C16_EmptyVocabularyFails ==
    pc = "done" => phase_labels # <<>>

\* C17: phase_labels is the subsequence of the canonical chronology made of the
\* phases that occur in the loaded frames, and phase_to_index maps it one-to-one
\* onto 0..k-1 in chronological order.
C17_DenseChronologicalIndex ==
    pc # "new" =>
        LET present == {data_frame[i].Phase : i \in 1..Len(data_frame)}
            canon   == Range(chronological_phases)
            k       == Len(phase_labels)
        IN /\ Range(phase_labels) = present \cap canon
           /\ \A i, j \in 1..k :
                 i < j => ChronoRank(phase_labels[i]) < ChronoRank(phase_labels[j])
           /\ DOMAIN phase_to_index = Range(phase_labels)
           /\ {phase_to_index[p] : p \in DOMAIN phase_to_index} = 0..(k - 1)
           /\ \A p, q \in DOMAIN phase_to_index :
                 ChronoRank(p) < ChronoRank(q) => phase_to_index[p] < phase_to_index[q]

\* A split whose shuffled frames meet t4 before t2: the vocabulary still lists
\* t2 first, and skips the absent t3.
C17_Witness ==
    /\ pc = "done"
    /\ phase_labels = <<"t2", "t4">>
    /\ data_frame[1].Phase = "t4"
    /\ phase_to_index["t4"] = 1

\* C13: _balance_flags does not mutate its input.  The list object that held
\* the population when it was called, and every window in it, have the same
\* contents in the same order after the call, and the balanced population is
\* held by another, newly produced list.
C13_InputNotMutated ==
    BalanceDone =>
        /\ lists[1] = balance_input
        /\ seq_ref # 1
        /\ lists[seq_ref] = video_sequences

\* A call that dropped a window and moved another: the new list differs from
\* the input list in length and in its first window.
C13_Witness ==
    /\ BalanceDone
    /\ Len(video_sequences) > 0
    /\ Len(video_sequences) < Len(balance_input)
    /\ video_sequences[1] # balance_input[1]

\* C19: constructing a dataset, with or without balancing, leaves process-wide
\* state as it found it; the generator of the random module is in the state it
\* had when the constructor was entered.
C19_GeneratorUntouched ==
    pc = "done" => rng = rng_before

\* The identifier has no digit after its last underscore.
NoOrdinal(identifier) ==
    \A i \in 1..Len(identifier) :
        identifier[i] \in Range(DigitChars) =>
            \E j \in (i + 1)..Len(identifier) : identifier[j] = "_"

BadIdentifierRows == {i \in 1..Len(csv) : NoOrdinal(csv[i].Identifier)}

\* C14: when a loaded frame's identifier ends in an underscore-delimited token
\* with no digit run, the construction fails with an error and yields no window
\* population, whatever window_size, stride and the length of the frame's video
\* (also when the video has fewer than window_size frames).
C14_UnparsableOrdinalFails ==
    BadIdentifierRows # {} =>
        /\ pc \in {"new", "create", "failed"}
        /\ video_sequences = <<>>
        /\ pc = "failed" => err # "None"

\* The frame without ordinal is the only frame of its video and the window
\* takes three frames: the construction has failed on the sort key.
C14_Witness ==
    /\ pc = "failed"
    /\ err = "IndexError"
    /\ window_size = 3
    /\ \E i \in BadIdentifierRows :
          Cardinality({j \in 1..Len(csv) : csv[j].Video_name = csv[i].Video_name}) = 1

UnknownPhaseRows ==
    {i \in 1..Len(csv) : csv[i].Phase \notin Range(chronological_phases)}

\* C15: when a loaded frame carries a phase that is not in the canonical
\* vocabulary, the construction fails with an error; it never completes with
\* the frame dropped or kept, in strict and permissive mode, for every video
\* length.
C15_UnknownPhaseFails ==
    UnknownPhaseRows # {} => pc # "done"

\* C20: get_dataloaders builds the test dataset with balancing enabled whatever
\* value Balance_Flags has, also when it is omitted or False, so that the test
\* population has as many windows of flag 0 as of flag 1.
C20_TestAlwaysBalanced ==
    (used_for = "Test" /\ pc = "done") =>
        /\ balance_flags
        /\ flag_counts[1] = flag_counts[2]

\* C18: when two balanced constructions run concurrently, however their steps
\* interleave, each ends with the balanced population (same windows, same
\* order) it produces when it runs alone on the same input.
C18_ConcurrentAsAlone ==
    \A t \in DOMAIN workers :
        workers[t].pc = "done" =>
            workers[t].out = Balanced(video_sequences, phase_to_index, rng).out

RECURSIVE SumOf(_, _)
SumOf(f, S) ==
    IF S = {} THEN 0
    ELSE LET x == CHOOSE y \in S : TRUE
         IN f[x] + SumOf(f, S \ {x})

\* The cells of the printed matrix as one function of <<i, j>>.
Cells ==
    [c \in (DOMAIN transition_matrix) \X (DOMAIN transition_matrix) |->
        transition_matrix[c[1]][c[2]]]

FirstIndex(q) == VocabIndex(q[1].phase)

LastIndex(q) == VocabIndex(q[Len(q)].phase)

\* C22: the matrix of _print_transition_matrix is square with one row per
\* present phase; cell [i][j] is the number of windows of the final population
\* that start in phase index i and end in phase index j; all cells add up to
\* the population size, the diagonal to the flag-0 count and the rest to the
\* flag-1 count reported by _print_flag_consistency.
C22_MatrixCounts ==
    pc = "done" =>
        LET side == 0..(Len(phase_labels) - 1)
            diag == {c \in DOMAIN Cells : c[1] = c[2]}
        IN /\ DOMAIN transition_matrix = side
           /\ \A i \in side : DOMAIN transition_matrix[i] = side
           /\ \A i, j \in side :
                 transition_matrix[i][j] =
                     Cardinality({k \in 1..Len(video_sequences) :
                                     /\ FirstIndex(video_sequences[k]) = i
                                     /\ LastIndex(video_sequences[k]) = j})
           /\ SumOf(Cells, DOMAIN Cells) = Len(video_sequences)
           /\ SumOf(Cells, diag) = flag_counts[1]
           /\ SumOf(Cells, (DOMAIN Cells) \ diag) = flag_counts[2]

\* Three present phases, a window that stays in its phase and one that moves
\* from the first phase to the second.
C22_Witness ==
    /\ pc = "done"
    /\ Len(phase_labels) = 3
    /\ transition_matrix[0][0] = 1
    /\ transition_matrix[0][1] = 1
    /\ transition_matrix[1][0] = 0

\* C27: in strict mode the first and last phase index of every retained window
\* differ by at most 1, the matrix is zero outside the diagonal and its two
\* neighbours, and every window of flag 1 holds exactly two phases whose
\* indices differ by 1.
C27_StrictNearDiagonal ==
    (~multiple_phases /\ pc \in {"balance", "flags", "matrix", "done"}) =>
        /\ \A k \in 1..Len(video_sequences) :
              LET q == video_sequences[k]
                  U == {VocabIndex(q[i].phase) : i \in 1..Len(q)}
              IN /\ FirstIndex(q) - LastIndex(q) \in {-1, 0, 1}
                 /\ FirstIndex(q) # LastIndex(q) =>
                       /\ Cardinality(U) = 2
                       /\ \E a \in U : U = {a, a + 1}
        /\ pc = "done" =>
              \A c \in DOMAIN Cells :
                 c[1] - c[2] \notin {-1, 0, 1} => Cells[c] = 0

\* Strict mode, three present phases, and a retained window that moves from the
\* second phase to the third.
C27_Witness ==
    /\ ~multiple_phases /\ pc = "done"
    /\ Len(phase_labels) = 3
    /\ transition_matrix[1][2] > 0

\* The video a window's first frame was recorded in, and the offset of that
\* frame among the video's frames in recording order.
VideoOf(q) ==
    CHOOSE v \in 1..Len(VideoName) :
        \E k \in 1..Len(RecordedFrames(v)) : RecordedFrames(v)[k] = q[1]

OffsetOf(q) ==
    (CHOOSE k \in 1..Len(RecordedFrames(VideoOf(q))) :
        RecordedFrames(VideoOf(q))[k] = q[1]) - 1

PopulationBuilt == pc \in {"balance", "flags", "matrix", "done"}

\* C23: in every mode, and after balancing, every window of the population has
\* exactly window_size frames, all of one video, in strictly ascending ordinal
\* order, at consecutive positions of the video's ordinal-sorted frames, and
\* starts at an offset that is a multiple of stride.
C23_WindowShape ==
    PopulationBuilt =>
        \A k \in 1..Len(video_sequences) :
           LET q == video_sequences[k]
           IN /\ Len(q) = window_size
              /\ \E v \in 1..Len(VideoName) :
                    \E off \in 0..(Len(RecordedFrames(v)) - window_size) :
                       /\ off % stride = 0
                       /\ q = SubSeq(RecordedFrames(v), off + 1, off + window_size)
                       /\ \A i \in 1..(window_size - 1) :
                             OrdinalOf(off + i) < OrdinalOf(off + i + 1)

\* A balanced population under window 2 and stride 2 whose first window starts
\* at offset 2 of its video, built from shuffled records.
C23_Witness ==
    /\ pc = "done" /\ balance_flags
    /\ window_size = 2 /\ stride = 2
    /\ data_frame # csv
    /\ Len(video_sequences) = 2
    /\ video_sequences[1] = SubSeq(RecordedFrames(1), 3, 4)

FirstRecordOf(v) ==
    SetMin({i \in 1..Len(data_frame) : data_frame[i].Video_name = VideoName[v]})

\* C24: with balancing off, the population lists the windows video by video, in
\* the order in which the videos first appear in the loaded records, and within
\* a video by strictly increasing start offset; windows of two videos are never
\* interleaved.
C24_GroupedOrder ==
    (~balance_flags /\ pc \in {"flags", "matrix", "done"}) =>
        \A i, j \in 1..Len(video_sequences) :
           i < j =>
              LET a == video_sequences[i]
                  b == video_sequences[j]
              IN IF VideoOf(a) = VideoOf(b)
                 THEN OffsetOf(a) < OffsetOf(b)
                 ELSE FirstRecordOf(VideoOf(a)) < FirstRecordOf(VideoOf(b))

\* The second video of the split file is met first in the shuffled records: its
\* window comes first, followed by the window of the other video.
C24_Witness ==
    /\ ~balance_flags /\ pc = "done"
    /\ window_size = 1
    /\ Len(video_sequences) = 2
    /\ csv[1].Video_name = VideoName[1]
    /\ VideoOf(video_sequences[1]) = 2
    /\ VideoOf(video_sequences[2]) = 1

\* The rows of the split in the order of recording: video by video, each by
\* the number its identifier ends with.
RowsOfVideo(v) == {r \in Range(csv) : r.Video_name = VideoName[v]}

RowNumbered(v, k) ==
    CHOOSE r \in RowsOfVideo(v) : r.Identifier = VideoName[v] \o <<"_">> \o RunToken(k)

RecordingOrder ==
    Concat([v \in 1..Len(VideoName) |->
               [k \in 1..Cardinality(RowsOfVideo(v)) |-> RowNumbered(v, k)]])

\* C28: with ordinals unique within each video, _create_sequences produces the
\* same set of windows (each an ordered list of frames) for every permutation
\* of the frame records, in particular for every seed of the record shuffle;
\* only the order of the videos in the population may differ.
C28_PermutationInvariant ==
    (pc \in {"flags", "matrix", "done"}) =>
        LET reference == AllWindows(RecordingOrder, window_size, stride,
                                    multiple_phases, phase_to_index)
        IN /\ Range(video_sequences) = Range(reference)
           /\ Len(video_sequences) = Len(reference)
           /\ \A v \in 1..Len(VideoName) :
                 WindowsOfVideo(v) =
                     SelectSeq(reference, LAMBDA q : q[1].path[1] = VideoName[v][1])

\* Records loaded with the third frame of a video first and its first frame
\* last, and still the two windows of the recording order.
C28_Witness ==
    /\ pc = "done"
    /\ window_size = 2 /\ stride = 1
    /\ Len(data_frame) = 3
    /\ data_frame[1].Identifier = VideoName[1] \o <<"_">> \o RunToken(3)
    /\ data_frame[3].Identifier = VideoName[1] \o <<"_">> \o RunToken(1)
    /\ Len(video_sequences) = 2
    /\ video_sequences[1][1].identifier = VideoName[1] \o <<"_">> \o RunToken(1)

VideosIn(rows) == {rows[i].Video_name : i \in 1..Len(rows)}

\* C21: NumberOfVideos is an upper limit.  For every k > 0 and every number m
\* of videos in the filtered split, m < k included, the construction completes
\* and the windows come from at most k videos; for k = 0 all m videos are
\* used.
C21_VideoLimit ==
    /\ pc # "failed"
    /\ pc = "done" =>
          IF NumberOfVideos = 0
          THEN VideosIn(data_frame) = VideosIn(csv)
          ELSE /\ Cardinality(VideosIn(data_frame)) <= NumberOfVideos
               /\ Cardinality({VideoOf(video_sequences[i]) :
                                  i \in 1..Len(video_sequences)}) <= NumberOfVideos

\* C25: once the construction has completed, no call of __len__, __getitem__
\* (successful or failing), _print_flag_consistency or
\* _print_transition_matrix changes the population, the order of its windows or
\* phase_to_index.
C25_ReadOnlyAfterConstruction ==
    [][pc = "done" =>
          /\ video_sequences' = video_sequences
          /\ phase_to_index' = phase_to_index]_vars

\* A failing __getitem__, a __len__ and a later diagnostic call on a population
\* of two windows.
C25_Witness ==
    /\ pc = "done"
    /\ last_call = "_print_transition_matrix"
    /\ item = <<"None">>
    /\ len_result = 2

ItemPaths(q) == [i \in 1..Len(q) |-> q[i].path]

\* C29 as stated: when the image of any frame of the window fails to load,
\* __getitem__ returns None without raising and returns nothing of the frames
\* already loaded; otherwise it returns a 4-tuple built from exactly
\* window_size frames in window order.
C29_AllOrNothing ==
    (pc = "done" /\ item # <<>>) =>
        IF load_failed THEN item = <<"None">>
        ELSE /\ Len(item) = 4
             /\ Len(item[1]) = window_size
             /\ item[1] = ItemPaths(video_sequences[item_idx + 1])

\* C29, amended: the 4-tuple is returned when mode is "video" or "image_seq";
\* with any other mode and every image loaded, ValueError is raised.
C29_AllOrNothingKnownMode ==
    (pc = "done" /\ item # <<>>) =>
        IF load_failed THEN item = <<"None">>
        ELSE IF mode \in {"video", "image_seq"}
        THEN /\ Len(item) = 4
             /\ Len(item[1]) = window_size
             /\ item[1] = ItemPaths(video_sequences[item_idx + 1])
        ELSE item = <<"ValueError">>

\* A window of two frames of which one did not load, under an undocumented
\* mode: the sentinel, not the exception.
C29_Witness ==
    /\ pc = "done"
    /\ window_size = 2
    /\ load_failed
    /\ mode = "frames"
    /\ item = <<"None">>

\* The row updateEmbryo was called on, as it was before the call.
TargetRow == RowsWithId(before.embryo, call.embryo_id)[1]

\* C26: updateEmbryo called on an existing embryo by a doctor who does not own
\* it succeeds and changes the row when the doctor has global access, and
\* answers 'Access denied' and leaves the row as it was when the doctor has
\* not.
C26_GlobalAccessUpdates ==
    (/\ call.op = "updateEmbryo"
     /\ RowsWithId(before.embryo, call.embryo_id) # <<>>
     /\ TargetRow.doctor_id # call.user) =>
        IF GlobalAccess(call.user)
        THEN /\ reply.ok
             /\ RowsWithId(embryo, call.embryo_id)[1] =
                   [TargetRow EXCEPT !.date = call.date]
        ELSE /\ ~reply.ok
             /\ reply.msg = "Access denied"
             /\ embryo = before.embryo

\* The files a folder held before the call.
FilesBefore(folder) == {f \in before.files : f[1] = folder}

\* C30: a failed addEmbryo answers (False, message), adds no row, and leaves
\* the folder and the files of every embryo stored before the call in place,
\* also when it was given the embryo_id and date of an embryo already stored.
C30_FailedAddKeepsStore ==
    (call.op = "addEmbryo" /\ ~reply.ok) =>
        /\ embryo = before.embryo
        /\ \A i \in 1..Len(before.embryo) :
              LET folder == before.embryo[i].path
              IN /\ folder \in before.folders => folder \in folders
                 /\ FilesBefore(folder) \subseteq files

====
